---- MODULE Spec2Model ----
(***************************************************************************)
(* The two-host MCP configuration synchroniser of mcp-get:                 *)
(*   - class ConfigManager            (src/src/utils/config-manager.ts)    *)
(*   - the module-level functions     (src/unnamed/part_000)               *)
(*                                                                         *)
(* State: the platform and environment the process runs on, the host files *)
(* on disk (the Claude Desktop file = primary, at the path ConfigManager   *)
(* resolves and at the path the module-level functions resolve, which are  *)
(* one file on some platforms and two files on others; the Amazon Q file = *)
(* secondary), the answer the shell gave to the last `which uvx` (the      *)
(* launcher may be installed or removed before any lookup, so every lookup *)
(* draws its answer; none is found before the first), the installs         *)
(* suspended on that lookup, the number of calls the caller may still      *)
(* make, a record of the last call and its result, and a history variable  *)
(* (snapshot) that keeps the two files as an earlier step found them.      *)
(*                                                                         *)
(* Data representation                                                     *)
(*   - a package or server name is the sequence of its parts: each '/' and *)
(*     each '-' is a part, and so is each run of other characters, so that *)
(*     replace(/\//g, '-') is computed part by part;                       *)
(*   - a top-level key of a config is a string;                            *)
(*   - a JSON object is a function from its own keys to their values; what *)
(*     it inherits from its prototype is kept beside it where the code     *)
(*     reads it (obj[k], k in obj) or changes it (obj["__proto__"] = v);   *)
(*   - a host-owned JSON value is a record: a value that is no object is   *)
(*     given by its JSON text ("false", "\"dark\""), which decides its     *)
(*     JavaScript truthiness; an object or an array is given by its own   *)
(*     members, which are what an object inherits that has it as its       *)
(*     prototype;                                                          *)
(*   - a server entry is a record: the set of the fields it has of its own *)
(*     and the value of each of the four fields; isNull marks the JSON     *)
(*     value null in the place of an entry (NullEntry);                    *)
(*   - the string "undefined" is the value undefined: what reading an      *)
(*     absent property yields, and what a field of an entry built in       *)
(*     memory may hold; JSON.stringify writes no such field.               *)
(***************************************************************************)
EXTENDS Integers, Sequences, FiniteSets, TLC

VARIABLES environment, claudeFile, claudeFileFn, amazonQFile, whichUvx, pending,
          callsLeft, last, snapshot

vars == <<environment, claudeFile, claudeFileFn, amazonQFile, whichUvx, pending,
          callsLeft, last, snapshot>>

\* Bound: how many calls the caller makes after the initial state (Spec).
MaxCalls == 1

\* Bound of the caller that runs a failed call again (SpecRetry): how many
\* calls it makes, the failed ones and the repeated ones.
MaxRetryCalls == 2

\* Bound of the caller that makes a call while another one is suspended
\* (SpecAsync): how many calls it makes.
MaxAsyncCalls == 2

\* Bound of every caller: how many installMCPServer calls may be suspended
\* on `which uvx` at once.
MaxPending == 1

(***************************************************************************)
(* Path Resolver.  A path is the sequence of its components; an            *)
(* environment variable that is unset or empty is the empty sequence.      *)
(***************************************************************************)
HomeDir == <<"~">>

Darwin == [platform |-> "darwin", APPDATA |-> <<>>, XDG_CONFIG_HOME |-> <<>>]
Linux == [platform |-> "linux", APPDATA |-> <<>>, XDG_CONFIG_HOME |-> <<>>]
Environments == {Darwin, Linux}

\* ConfigManager's static block: claudeConfigPath
ConfigManager_getConfigPath(env) ==
    IF env.platform = "win32"
    THEN (IF env.APPDATA # <<>> THEN env.APPDATA ELSE HomeDir \o <<"AppData", "Roaming">>)
            \o <<"Claude", "claude_desktop_config.json">>
    ELSE IF env.platform = "darwin"
    THEN HomeDir \o <<"Library", "Application Support", "Claude", "claude_desktop_config.json">>
    ELSE (IF env.XDG_CONFIG_HOME # <<>> THEN env.XDG_CONFIG_HOME ELSE HomeDir \o <<".config">>)
            \o <<"Claude", "claude_desktop_config.json">>

\* ConfigManager's static block: amazonQConfigPath
ConfigManager_getAmazonQConfigPath(env) == HomeDir \o <<".aws", "amazonq", "mcp.json">>

\* getConfigPath (module level): APPDATA || '' on win32, the macOS path on
\* every other platform.
getConfigPath(env) ==
    IF env.platform = "win32"
    THEN env.APPDATA \o <<"Claude", "claude_desktop_config.json">>
    ELSE HomeDir \o <<"Library", "Application Support", "Claude", "claude_desktop_config.json">>

\* getAmazonQConfigPath (module level)
getAmazonQConfigPath(env) == HomeDir \o <<".aws", "amazonq", "mcp.json">>

\* The two implementations resolve the Claude file to one path.
SameClaudePath(env) == ConfigManager_getConfigPath(env) = getConfigPath(env)

(***************************************************************************)
(* Names                                                                   *)
(***************************************************************************)
PkgScoped == <<"a", "/", "b", "/", "c">>
PkgPlain == <<"d">>
PkgInherited == <<"constructor">>
PkgProto == <<"__proto__">>
PackageNames == {PkgScoped, PkgPlain, PkgInherited, PkgProto}
NoPackage == <<>>

RECURSIVE ServerNameOf(_)
\* packageName.replace(/\//g, '-')
ServerNameOf(packageName) ==
    IF packageName = <<>> THEN <<>>
    ELSE <<IF Head(packageName) = "/" THEN "-" ELSE Head(packageName)>>
             \o ServerNameOf(Tail(packageName))

(***************************************************************************)
(* JavaScript objects.  The configs and the mcpServers maps are plain      *)
(* objects: obj[k] and `k in obj` also find what Object.prototype gives    *)
(* every object, and obj["__proto__"] = v replaces the prototype instead   *)
(* of adding a key.                                                        *)
(***************************************************************************)
ObjectPrototypeKeys ==
    {"constructor", "toString", "toLocaleString", "valueOf", "hasOwnProperty",
     "isPrototypeOf", "propertyIsEnumerable", "__defineGetter__", "__defineSetter__",
     "__lookupGetter__", "__lookupSetter__", "__proto__"}

ProtoKey == "__proto__"
ProtoName == <<"__proto__">>

\* The same names as server names.
ObjectPrototypeNames == {<<k>> : k \in ObjectPrototypeKeys}

\* What Array.prototype adds to the names every object inherits.
ArrayPrototypeKeys ==
    {"length", "constructor", "at", "concat", "copyWithin", "fill", "find", "findIndex",
     "findLast", "findLastIndex", "lastIndexOf", "pop", "push", "reverse", "shift",
     "unshift", "slice", "sort", "splice", "includes", "indexOf", "join", "keys",
     "entries", "values", "forEach", "filter", "flat", "flatMap", "map", "every", "some",
     "reduce", "reduceRight", "toLocaleString", "toString", "toReversed", "toSorted",
     "toSpliced", "with"}

NoMembers == [k \in {} |-> FALSE]

\* The prototype of an mcpServers object: whether its chain ends in
\* Object.prototype, and the members the prototype object has of its own,
\* each with the truthiness of its value.
ObjectPrototype == [chain |-> TRUE, members |-> NoMembers]
NullPrototype == [chain |-> FALSE, members |-> NoMembers]

\* A name the object does not own but finds through its prototype.
Inherits(proto, name) ==
    name \in DOMAIN proto.members \/ (proto.chain /\ name \in ObjectPrototypeNames)

\* obj[name] is truthy for a name the object does not own: the prototype's
\* own member is read before what Object.prototype gives.
InheritsTruthy(proto, name) ==
    IF name \in DOMAIN proto.members THEN proto.members[name]
    ELSE proto.chain /\ name \in ObjectPrototypeNames

(***************************************************************************)
(* JSON values                                                             *)
(***************************************************************************)
EmptyMap == [k \in {} |-> "undefined"]

\* JavaScript truthiness of a value that is no object, given as the JSON text
\* JSON.stringify writes for it.
IsTruthy(v) == v \notin {"undefined", "null", "false", "0", "\"\""}

\* JavaScript truthiness of a string held as itself (a runtime, a command).
IsTruthyString(s) == s \notin {"undefined", ""}

\* A host-owned value that is no object: null, a boolean, a number, a string.
JsonText(text) == [kind |-> "text", text |-> text, members |-> EmptyMap]

\* A host-owned object, by its own members (each member a JSON text).
JsonObject(members) == [kind |-> "object", text |-> "", members |-> members]

\* A host-owned array, by its elements (each element a JSON text): its own
\* members are the indices and length.
JsonArray(elements) ==
    [kind |-> "array", text |-> "",
     members |-> [k \in {ToString(i - 1) : i \in 1..Len(elements)} \cup {"length"} |->
                    IF k = "length" THEN ToString(Len(elements))
                    ELSE elements[CHOOSE i \in 1..Len(elements) : ToString(i - 1) = k]]]

\* JavaScript truthiness of a host-owned value: objects and arrays are truthy.
IsTruthyValue(v) == v.kind # "text" \/ IsTruthy(v.text)

ExtraKeys == {"theme"}
EnvVals == {"{\"API_KEY\":\"x\"}"}

\* The fields of a server entry.
EntryFields == {"runtime", "command", "args", "env"}

\* Entries a host file may hold before the first call (written by the host
\* application, the user or an earlier version).
LegacyPrimary ==
    [isNull |-> FALSE, fields |-> EntryFields \ {"env"},
     runtime |-> "node", command |-> "npx", args |-> <<"-y", <<"x">>>>, env |-> "undefined"]
LegacySecondary ==
    [isNull |-> FALSE, fields |-> EntryFields,
     runtime |-> "python", command |-> "uvx", args |-> <<<<"y">>>>, env |-> "{}"]

\* The JSON value null where a server entry is expected ("name": null).
NullEntry ==
    [isNull |-> TRUE, fields |-> {},
     runtime |-> "undefined", command |-> "undefined", args |-> <<>>, env |-> "undefined"]

\* JavaScript truthiness of a server entry: an object is truthy, null is not.
IsTruthyEntry(entry) == ~entry.isNull

\* The fields an entry has of its own, as server names: a field that holds
\* undefined is one of them.
EntryFieldNames(entry) == {<<f>> : f \in entry.fields}

\* JSON.stringify of a server entry: a field holding undefined is not
\* written.
StringifyEntry(entry) ==
    [entry EXCEPT !.fields = {f \in @ :
        \/ f = "runtime" /\ entry.runtime # "undefined"
        \/ f = "command" /\ entry.command # "undefined"
        \/ f = "args"
        \/ f = "env" /\ entry.env # "undefined"}]

\* The prototype an entry makes once obj["__proto__"] = entry has run: the
\* entry's own fields are found through it with the truthiness of their
\* values (an array is truthy, the empty string is not), and through it
\* Object.prototype.
EntryPrototype(entry) ==
    [chain |-> TRUE,
     members |-> [n \in EntryFieldNames(entry) |->
                    IF n = <<"runtime">> THEN IsTruthyString(entry.runtime)
                    ELSE IF n = <<"command">> THEN IsTruthyString(entry.command)
                    ELSE IF n = <<"args">> THEN TRUE
                    ELSE IsTruthy(entry.env)]]

\* The prototype of obj after obj["__proto__"] = entry, where obj reaches
\* the __proto__ accessor: null and objects are taken, nothing else is.
PrototypeSetTo(entry) == IF entry.isNull THEN NullPrototype ELSE EntryPrototype(entry)

\* { mcpServers: {} }.  proto is the prototype of the mcpServers object.
EmptyConfig ==
    [extras |-> EmptyMap, hasServers |-> TRUE, mcpServers |-> EmptyMap,
     proto |-> ObjectPrototype]

\* obj[k] is truthy, for a map of server entries and its prototype.
TruthyAt(m, proto, k) ==
    IF k \in DOMAIN m THEN IsTruthyEntry(m[k]) ELSE InheritsTruthy(proto, k)

\* k in obj
HasName(m, proto, k) == k \in DOMAIN m \/ Inherits(proto, k)

\* The own keys of obj after obj[k] = v, where obj has the prototype every
\* object literal has: the key "__proto__" is the prototype's accessor, the
\* assignment goes to it and adds no key.
MapSet(m, k, v) ==
    IF k = ProtoName /\ k \notin DOMAIN m THEN m
    ELSE [x \in DOMAIN m \cup {k} |-> IF x = k THEN v ELSE m[x]]

\* obj["__proto__"] = v reaches the accessor of Object.prototype: the chain
\* of obj ends there and no object before it has a member of that name.
ReachesAccessor(proto) == proto.chain /\ ProtoName \notin DOMAIN proto.members

\* The own keys of obj after obj[k] = v where obj has the prototype proto:
\* where the accessor is not reached "__proto__" is a key like any other.
MapAssign(m, proto, k, v) ==
    IF ReachesAccessor(proto) THEN MapSet(m, k, v)
    ELSE [x \in DOMAIN m \cup {k} |-> IF x = k THEN v ELSE m[x]]

\* The prototype of obj after obj[k] = v.
ProtoAssign(m, proto, k, v) ==
    IF k = ProtoName /\ k \notin DOMAIN m /\ ReachesAccessor(proto) THEN PrototypeSetTo(v)
    ELSE proto

\* delete obj[k]: own keys only.
MapDelete(m, k) == [x \in DOMAIN m \ {k} |-> m[x]]

AllMaps(keys, vals) == UNION {[d -> vals] : d \in SUBSET keys}

(***************************************************************************)
(* Files.  A file is missing, holds text that JSON.parse rejects, or holds *)
(* a JSON object.                                                          *)
(***************************************************************************)
MissingFile == [kind |-> "missing", json |-> EmptyConfig]
MalformedFile == [kind |-> "malformed", json |-> EmptyConfig]
JsonFile(obj) == [kind |-> "json", json |-> obj]

\* fs.existsSync(path)
ExistsSync(file) == file.kind # "missing"

\* JSON.parse(fs.readFileSync(path, 'utf8')) throws on malformed text.
ParseThrows(file) == file.kind = "malformed"
JsonParse(file) == file.json

\* JSON.stringify(obj, null, 2): own keys only, whatever the prototype; a
\* property holding undefined is not written.
JsonStringify(obj) ==
    JsonFile([extras |-> obj.extras,
              hasServers |-> obj.hasServers,
              mcpServers |-> IF obj.hasServers
                             THEN [n \in DOMAIN obj.mcpServers |->
                                     StringifyEntry(obj.mcpServers[n])]
                             ELSE EmptyMap,
              proto |-> ObjectPrototype])

(***************************************************************************)
(* Config Reader.  A reader returns [threw, config]: threw says whether    *)
(* the call raised to its caller.                                          *)
(***************************************************************************)
Returned(config) == [threw |-> FALSE, config |-> config]
Raised == [threw |-> TRUE, config |-> EmptyConfig]

\* { ...config, mcpServers: config.mcpServers || {} }
WithServersDefault(parsed) ==
    [extras |-> parsed.extras,
     hasServers |-> TRUE,
     mcpServers |-> IF parsed.hasServers THEN parsed.mcpServers ELSE EmptyMap,
     proto |-> IF parsed.hasServers THEN parsed.proto ELSE ObjectPrototype]

\* A reader whose JSON.parse is not inside a try block.
ReadWithoutCatch(file) ==
    IF ~ExistsSync(file) THEN Returned(EmptyConfig)
    ELSE IF ParseThrows(file) THEN Raised
    ELSE Returned(WithServersDefault(JsonParse(file)))

\* ConfigManager.readClaudeConfig
ConfigManager_readClaudeConfig(file) ==
    IF ~ExistsSync(file) THEN Returned(EmptyConfig)
    ELSE IF ParseThrows(file) THEN Returned(EmptyConfig)
    ELSE Returned(WithServersDefault(JsonParse(file)))

\* ConfigManager.readAmazonQConfig
ConfigManager_readAmazonQConfig(file) ==
    IF ~ExistsSync(file) THEN Returned(EmptyConfig)
    ELSE IF ParseThrows(file) THEN Returned(EmptyConfig)
    ELSE Returned(WithServersDefault(JsonParse(file)))

\* readClaudeConfig (module level)
readClaudeConfig(file) ==
    IF ~ExistsSync(file) THEN Returned(EmptyConfig)
    ELSE IF ParseThrows(file) THEN Returned(EmptyConfig)
    ELSE Returned(WithServersDefault(JsonParse(file)))

\* readAmazonQConfig (module level)
readAmazonQConfig(file) ==
    IF ~ExistsSync(file) THEN Returned(EmptyConfig)
    ELSE IF ParseThrows(file) THEN Returned(EmptyConfig)
    ELSE Returned(WithServersDefault(JsonParse(file)))

(***************************************************************************)
(* Config Merger.  mergedConfig starts as { mcpServers: {} }; the first    *)
(* loop assigns every key of the primary, the second loop assigns a key of *)
(* the secondary when !mergedConfig[key].  Both loops run once over the    *)
(* other keys and once over the server names.                              *)
(***************************************************************************)
\* The prototype of mergedConfig after the first loop: the primary's own key
\* "__proto__" went to the accessor, which takes null (the chain is cut), an
\* object or an array (it becomes the prototype) and ignores every other
\* value.  array says that Array.prototype is in the chain.
ConfigPrototype(claudeExtras) ==
    IF ProtoKey \notin DOMAIN claudeExtras
    THEN [chain |-> TRUE, array |-> FALSE, members |-> EmptyMap]
    ELSE IF claudeExtras[ProtoKey].kind = "text"
    THEN [chain |-> claudeExtras[ProtoKey].text # "null", array |-> FALSE,
          members |-> EmptyMap]
    ELSE [chain |-> TRUE, array |-> claudeExtras[ProtoKey].kind = "array",
          members |-> claudeExtras[ProtoKey].members]

\* The own keys of mergedConfig after the first loop.
ExtrasAfterPrimary(claudeExtras) ==
    [k \in DOMAIN claudeExtras \ {ProtoKey} |-> claudeExtras[k]]

\* mergedConfig[key] is truthy when the second loop reads it: an own key,
\* else a member of the prototype object, else what Array.prototype and
\* Object.prototype give.
ExtraTruthyAt(claudeExtras, k) ==
    IF k \in DOMAIN ExtrasAfterPrimary(claudeExtras) THEN IsTruthyValue(claudeExtras[k])
    ELSE IF k \in DOMAIN ConfigPrototype(claudeExtras).members
    THEN IsTruthy(ConfigPrototype(claudeExtras).members[k])
    ELSE \/ ConfigPrototype(claudeExtras).array /\ k \in ArrayPrototypeKeys
         \/ ConfigPrototype(claudeExtras).chain /\ k \in ObjectPrototypeKeys

\* The two forEach loops over the non-mcpServers keys.
MergeExtras(claudeExtras, amazonQExtras) ==
    LET copied == {k \in DOMAIN amazonQExtras : ~ExtraTruthyAt(claudeExtras, k)}
    IN  [k \in DOMAIN ExtrasAfterPrimary(claudeExtras) \cup copied |->
            IF k \in copied THEN amazonQExtras[k] ELSE claudeExtras[k]]

\* The prototype of mergedConfig.mcpServers after the first loop: the
\* primary's own name "__proto__" went to the accessor.
MergedPrototype(claudeServers) ==
    IF ProtoName \in DOMAIN claudeServers THEN PrototypeSetTo(claudeServers[ProtoName])
    ELSE ObjectPrototype

\* The own names of mergedConfig.mcpServers after the first loop.
ServersAfterPrimary(claudeServers) ==
    [n \in DOMAIN claudeServers \ {ProtoName} |-> claudeServers[n]]

\* The two forEach loops over mcpServers: the secondary's entry is copied
\* when !mergedConfig.mcpServers[serverName], that is when the name is
\* neither an own name with a truthy entry nor found truthy through the
\* prototype.
MergeServers(claudeServers, amazonQServers) ==
    LET copied == {n \in DOMAIN amazonQServers :
                      ~TruthyAt(ServersAfterPrimary(claudeServers),
                                MergedPrototype(claudeServers), n)}
    IN  [n \in DOMAIN ServersAfterPrimary(claudeServers) \cup copied |->
            IF n \in copied THEN amazonQServers[n] ELSE claudeServers[n]]

\* The body of readMergedConfigs after the two reads (the same in both files).
MergeConfigs(claudeConfig, amazonQConfig) ==
    [extras |-> MergeExtras(claudeConfig.extras, amazonQConfig.extras),
     hasServers |-> TRUE,
     mcpServers |-> MergeServers(claudeConfig.mcpServers, amazonQConfig.mcpServers),
     proto |-> MergedPrototype(claudeConfig.mcpServers)]

\* ConfigManager.readMergedConfigs
ConfigManager_readMergedConfigs(cFile, qFile) ==
    LET claudeConfig == ConfigManager_readClaudeConfig(cFile)
        amazonQConfig == ConfigManager_readAmazonQConfig(qFile)
    IN  IF claudeConfig.threw \/ amazonQConfig.threw THEN Raised
        ELSE Returned(MergeConfigs(claudeConfig.config, amazonQConfig.config))

\* readMergedConfigs (module level)
readMergedConfigs(cFile, qFile) ==
    LET claudeConfig == readClaudeConfig(cFile)
        amazonQConfig == readAmazonQConfig(qFile)
    IN  IF claudeConfig.threw \/ amazonQConfig.threw THEN Raised
        ELSE Returned(MergeConfigs(claudeConfig.config, amazonQConfig.config))

(***************************************************************************)
(* Config Writer.  fsFault names the host whose mkdirSync/writeFileSync    *)
(* throws ("claude", "amazonQ") or "none".  A writer returns the two files *)
(* as it leaves them and whether it raised to its caller.                  *)
(***************************************************************************)
FsFaults == {"none", "claude", "amazonQ"}

\* The host-owned keys kept from the file on disk: { ...parsed } without
\* mcpServers, and nothing when the file is missing or does not parse.
RetainedExtras(file) ==
    IF ExistsSync(file) /\ ~ParseThrows(file) THEN JsonParse(file).extras ELSE EmptyMap

\* A per-host write that patches the new servers into the old map.
WriteKeepingOldServers(file, config) ==
    JsonStringify([extras |-> RetainedExtras(file),
                   hasServers |-> TRUE,
                   mcpServers |-> MergeServers(
                       IF ExistsSync(file) /\ ~ParseThrows(file) /\ JsonParse(file).hasServers
                       THEN JsonParse(file).mcpServers ELSE EmptyMap,
                       config.mcpServers)])

\* A per-host write that spreads the merged config's own extra keys too.
WriteWithMergedExtras(file, config) ==
    JsonStringify([extras |-> MergeExtras(config.extras, RetainedExtras(file)),
                   hasServers |-> config.hasServers,
                   mcpServers |-> config.mcpServers])

\* ConfigManager.writeConfig, the Claude half: the new content of the file.
ConfigManager_claudeContent(file, config) ==
    JsonStringify([extras |-> RetainedExtras(file),
                   hasServers |-> config.hasServers,
                   mcpServers |-> config.mcpServers])

\* ConfigManager.writeConfig, the Amazon Q half: the new content of the file.
ConfigManager_amazonQContent(file, config) ==
    JsonStringify([extras |-> RetainedExtras(file),
                   hasServers |-> config.hasServers,
                   mcpServers |-> config.mcpServers])

\* A writer that writes the secondary host first.
WriteSecondaryFirst(cFile, qFile, config, fsFault) ==
    IF fsFault = "amazonQ" THEN [claude |-> cFile, amazonQ |-> qFile, threw |-> TRUE]
    ELSE IF fsFault = "claude"
    THEN [claude |-> cFile, amazonQ |-> ConfigManager_amazonQContent(qFile, config),
          threw |-> TRUE]
    ELSE [claude |-> ConfigManager_claudeContent(cFile, config),
          amazonQ |-> ConfigManager_amazonQContent(qFile, config), threw |-> FALSE]

\* ConfigManager.writeConfig: Claude first, then Amazon Q; the first throw
\* is logged and rethrown, what was written before it stays written.
ConfigManager_writeConfig(cFile, qFile, config, fsFault) ==
    IF fsFault = "claude" THEN [claude |-> cFile, amazonQ |-> qFile, threw |-> TRUE]
    ELSE IF fsFault = "amazonQ"
    THEN [claude |-> ConfigManager_claudeContent(cFile, config), amazonQ |-> qFile,
          threw |-> TRUE]
    ELSE [claude |-> ConfigManager_claudeContent(cFile, config),
          amazonQ |-> ConfigManager_amazonQContent(qFile, config), threw |-> FALSE]

\* writeConfig (module level): if (!config.mcpServers) config.mcpServers = {}
EnsureServers(config) ==
    [extras |-> config.extras,
     hasServers |-> TRUE,
     mcpServers |-> IF config.hasServers THEN config.mcpServers ELSE EmptyMap,
     proto |-> IF config.hasServers THEN config.proto ELSE ObjectPrototype]

\* writeConfig (module level), the Claude half: the new content of the file.
claudeContent(file, config) ==
    JsonStringify([extras |-> RetainedExtras(file),
                   hasServers |-> TRUE,
                   mcpServers |-> EnsureServers(config).mcpServers])

\* writeConfig (module level), the Amazon Q half: the new content of the file.
amazonQContent(file, config) ==
    JsonStringify([extras |-> RetainedExtras(file),
                   hasServers |-> TRUE,
                   mcpServers |-> EnsureServers(config).mcpServers])

\* writeConfig (module level): the same order, no try block of its own.
writeConfig(cFile, qFile, config, fsFault) ==
    IF fsFault = "claude" THEN [claude |-> cFile, amazonQ |-> qFile, threw |-> TRUE]
    ELSE IF fsFault = "amazonQ"
    THEN [claude |-> claudeContent(cFile, config), amazonQ |-> qFile, threw |-> TRUE]
    ELSE [claude |-> claudeContent(cFile, config),
          amazonQ |-> amazonQContent(qFile, config), threw |-> FALSE]

(***************************************************************************)
(* Runtime Command Deriver                                                 *)
(***************************************************************************)
Runtimes == {"node", "python"}

\* What `which uvx` prints when it finds the launcher, and a failed lookup.
UvxFound == [ok |-> TRUE, stdout |-> "/usr/local/bin/uvx\n"]
UvxNotFound == [ok |-> FALSE, stdout |-> ""]

\* The outcomes of a lookup.
Lookups == {UvxFound, UvxNotFound}

\* stdout.trim(), on the outputs the lookup can give.
Trim(s) == IF s = "/usr/local/bin/uvx\n" THEN "/usr/local/bin/uvx" ELSE s

\* loadPackage(packageName)?.runtime of the package registry: the registry
\* lists the plain package as a Python package and does not list the other.
LoadPackageRuntime(packageName) == IF packageName = PkgPlain THEN "python" ELSE "undefined"

\* getPackageRuntime: pkg?.runtime || 'node'
getPackageRuntime(packageName) ==
    IF IsTruthyString(LoadPackageRuntime(packageName)) THEN LoadPackageRuntime(packageName)
    ELSE "node"

\* runtime || getPackageRuntime(packageName)
EffectiveRuntime(packageName, runtime) ==
    IF IsTruthyString(runtime) THEN runtime ELSE getPackageRuntime(packageName)

\* installMCPServer: the command, given the outcome of the lookup.
LauncherCommand(effectiveRuntime, lookup) ==
    IF effectiveRuntime = "python"
    THEN IF lookup.ok THEN Trim(lookup.stdout) ELSE "uvx"
    ELSE "npx"

\* installMCPServer: serverConfig
ServerConfigOf(packageName, envVars, effectiveRuntime, lookup) ==
    [isNull |-> FALSE,
     fields |-> EntryFields,
     runtime |-> effectiveRuntime,
     env |-> envVars,
     command |-> LauncherCommand(effectiveRuntime, lookup),
     args |-> IF effectiveRuntime = "python" THEN <<packageName>> ELSE <<"-y", packageName>>]

\* A deriver whose python branch was copied from the node branch and kept
\* its args.
ServerConfigWithNodeArgs(pkg, envVars) ==
    [isNull |-> FALSE,
     fields |-> EntryFields,
     runtime |-> pkg.runtime,
     env |-> envVars,
     command |-> IF pkg.runtime = "node" THEN "npx" ELSE "uvx",
     args |-> <<"-y", pkg.name>>]

\* ConfigManager.installPackage: serverConfig
ConfigManager_serverConfigOf(pkg, envVars) ==
    [isNull |-> FALSE,
     fields |-> IF pkg.runtime \in {"node", "python"} THEN EntryFields
                ELSE {"runtime", "env"},
     runtime |-> pkg.runtime,
     env |-> envVars,
     command |-> IF pkg.runtime = "node" THEN "npx"
                 ELSE IF pkg.runtime = "python" THEN "uvx" ELSE "undefined",
     args |-> IF pkg.runtime = "node" THEN <<"-y", pkg.name>>
              ELSE IF pkg.runtime = "python" THEN <<pkg.name>> ELSE <<>>]

\* config.mcpServers[serverName] = serverConfig
WithServer(config, serverName, serverConfig) ==
    [extras |-> config.extras,
     hasServers |-> TRUE,
     mcpServers |-> MapAssign(config.mcpServers, config.proto, serverName, serverConfig),
     proto |-> ProtoAssign(config.mcpServers, config.proto, serverName, serverConfig)]

\* delete config.mcpServers[name]
WithoutServer(config, name) ==
    [extras |-> config.extras,
     hasServers |-> config.hasServers,
     mcpServers |-> MapDelete(config.mcpServers, name),
     proto |-> config.proto]


(***************************************************************************)
(* State machine.  `last` records the call that ended last: its arguments, *)
(* the write that was made to fail, how the call ended, the config it      *)
(* returned (a read) or built for writeConfig (a write), the server name   *)
(* it set or deleted, and the boolean it returned (isPackageInstalled).    *)
(*                                                                         *)
(* A call runs to its end in one step, with one exception:                 *)
(* installMCPServer reaches `await execAsync('which uvx')` when the        *)
(* effective runtime is python.  There it returns to its caller with the   *)
(* merged config read and nothing written (InstallMCPServerStart); other   *)
(* calls may run; when the lookup ends it sets its entry in the config it  *)
(* read and writes both files (InstallMCPServerResume).  pending holds the *)
(* suspended calls.                                                        *)
(*                                                                         *)
(* claudeFile is the file at ConfigManager's Claude path, claudeFileFn the *)
(* file at the module-level functions' Claude path; where the two paths    *)
(* are one path the two variables are one file and change together.        *)
(* amazonQFile is the file at the Amazon Q path, which both resolve alike. *)
(***************************************************************************)
Call(op, packageName, envVars, runtime, fsFault, outcome, config, key, flag) ==
    [op |-> op, packageName |-> packageName, env |-> envVars, runtime |-> runtime,
     fsFault |-> fsFault, outcome |-> outcome, config |-> config, key |-> key, flag |-> flag]

NoCall ==
    Call("none", NoPackage, "undefined", "undefined", "none", "ok", EmptyConfig, NoPackage, FALSE)

\* History: the two files as the step named by `of` found them.  "resumed":
\* the files a resumed installMCPServer wrote over; "failed": the files a
\* call that failed between its two writes started from; "rerun": the same,
\* once that call has been run again; "call" and "again": the files a
\* suspended installMCPServer started from, made for the first time or made
\* again after it failed.
Snapshot(of, cFile, qFile) == [of |-> of, claude |-> cFile, amazonQ |-> qFile]
NoSnapshot == Snapshot("none", MissingFile, MissingFile)

\* A call of ConfigManager leaves cFile at its Claude path and qFile at the
\* Amazon Q path.
ConfigManagerLeaves(cFile, qFile) ==
    /\ claudeFile' = cFile
    /\ claudeFileFn' = IF SameClaudePath(environment) THEN cFile ELSE claudeFileFn
    /\ amazonQFile' = qFile

\* A call of a module-level function leaves cFile at its Claude path and
\* qFile at the Amazon Q path.
ModuleLeaves(cFile, qFile) ==
    /\ claudeFileFn' = cFile
    /\ claudeFile' = IF SameClaudePath(environment) THEN cFile ELSE claudeFile
    /\ amazonQFile' = qFile

\* The server names a host file may hold before the first call.
InitServerNames == {ServerNameOf(PkgScoped), PkgScoped}

\* A file holding the given host-owned keys and servers.
JsonWith(extras, servers) ==
    JsonFile([EmptyConfig EXCEPT !.extras = extras, !.mcpServers = servers])

\* A file holding an object without mcpServers.
NoServersFile == JsonFile([EmptyConfig EXCEPT !.hasServers = FALSE])

\* A map holding the given entry under each of the given names.
ServersNamed(names, entry) == [n \in names |-> entry]

\* The contents the Claude file may have before the first call: missing,
\* malformed, an object without mcpServers, a host-owned key, servers under
\* the initial names, null where an entry is expected, a key and a server,
\* null under the server name "__proto__", an object under the key "__proto__".
InitClaudeFiles ==
    {MissingFile, MalformedFile, NoServersFile,
     JsonWith(EmptyMap, ServersNamed({ProtoName}, NullEntry)),
     JsonWith([k \in {ProtoKey} |-> JsonObject([j \in ExtraKeys |-> "\"dark\""])], EmptyMap),
     JsonWith([k \in ExtraKeys |-> JsonText("\"dark\"")], EmptyMap),
     JsonWith(EmptyMap, ServersNamed({ServerNameOf(PkgScoped)}, NullEntry)),
     JsonWith([k \in ExtraKeys |-> JsonText("false")],
              ServersNamed({ServerNameOf(PkgScoped)}, LegacyPrimary))}
    \cup {JsonWith(EmptyMap, ServersNamed(names, LegacyPrimary)) :
            names \in (SUBSET InitServerNames) \ {{}}}

\* The contents the Amazon Q file may have before the first call: the same
\* kinds, and a server whose name every object inherits.
InitAmazonQFiles ==
    {MissingFile, MalformedFile, NoServersFile,
     JsonWith([k \in ExtraKeys |-> JsonText("\"light\"")], EmptyMap),
     JsonWith(EmptyMap, ServersNamed({PkgInherited}, LegacySecondary)),
     JsonWith([k \in ExtraKeys |-> JsonText("\"light\"")],
              ServersNamed(InitServerNames, LegacySecondary))}
    \cup {JsonWith(EmptyMap, ServersNamed({n}, LegacySecondary)) : n \in InitServerNames}

\* Where the two implementations resolve the Claude file to two paths: the
\* contents the file at ConfigManager's path, the file at the module-level
\* functions' path and the Amazon Q file may have before the first call.
InitSplitClaudeFiles ==
    {MissingFile, JsonWith(EmptyMap, ServersNamed({ServerNameOf(PkgScoped)}, LegacyPrimary))}

InitSplitClaudeFilesFn == InitSplitClaudeFiles \cup {MalformedFile}

InitSplitAmazonQFiles ==
    {MissingFile,
     JsonWith(EmptyMap, ServersNamed({PkgScoped}, LegacySecondary)),
     JsonWith(EmptyMap, ServersNamed({PkgInherited}, LegacySecondary))}

Init ==
    /\ environment \in Environments
    /\ \/ /\ SameClaudePath(environment)
          /\ claudeFile \in InitClaudeFiles
          /\ claudeFileFn = claudeFile
          /\ amazonQFile \in InitAmazonQFiles
       \/ /\ ~SameClaudePath(environment)
          /\ claudeFile \in InitSplitClaudeFiles
          /\ claudeFileFn \in InitSplitClaudeFilesFn
          /\ amazonQFile \in InitSplitAmazonQFiles
    /\ whichUvx = UvxNotFound
    /\ pending = <<>>
    /\ callsLeft = MaxCalls
    /\ last = NoCall
    /\ snapshot = NoSnapshot

\* One more call of the caller's budget is used.
Called == callsLeft > 0 /\ callsLeft' = callsLeft - 1

\* How a read that returned r ended.
ReadOutcome(r) == IF r.threw THEN "threw" ELSE "ok"

\* How a call that wrote with result w ended.
WriteOutcome(w) == IF w.threw THEN "threw" ELSE "ok"

ReadClaude ==
    /\ Called
    /\ LET r == ConfigManager_readClaudeConfig(claudeFile)
       IN  last' = Call("readClaudeConfig", NoPackage, "undefined", "undefined", "none",
                        ReadOutcome(r), r.config, NoPackage, FALSE)
    /\ UNCHANGED <<environment, claudeFile, claudeFileFn, amazonQFile, whichUvx, pending,
                   snapshot>>

ReadAmazonQ ==
    /\ Called
    /\ LET r == ConfigManager_readAmazonQConfig(amazonQFile)
       IN  last' = Call("readAmazonQConfig", NoPackage, "undefined", "undefined", "none",
                        ReadOutcome(r), r.config, NoPackage, FALSE)
    /\ UNCHANGED <<environment, claudeFile, claudeFileFn, amazonQFile, whichUvx, pending,
                   snapshot>>

ReadClaudeFn ==
    /\ Called
    /\ LET r == readClaudeConfig(claudeFileFn)
       IN  last' = Call("readClaudeConfigFn", NoPackage, "undefined", "undefined", "none",
                        ReadOutcome(r), r.config, NoPackage, FALSE)
    /\ UNCHANGED <<environment, claudeFile, claudeFileFn, amazonQFile, whichUvx, pending,
                   snapshot>>

ReadAmazonQFn ==
    /\ Called
    /\ LET r == readAmazonQConfig(amazonQFile)
       IN  last' = Call("readAmazonQConfigFn", NoPackage, "undefined", "undefined", "none",
                        ReadOutcome(r), r.config, NoPackage, FALSE)
    /\ UNCHANGED <<environment, claudeFile, claudeFileFn, amazonQFile, whichUvx, pending,
                   snapshot>>

\* ConfigManager.readConfig / readMergedConfigs
ReadMerged ==
    /\ Called
    /\ LET r == ConfigManager_readMergedConfigs(claudeFile, amazonQFile)
       IN  last' = Call("readMergedConfigs", NoPackage, "undefined", "undefined", "none",
                        ReadOutcome(r), r.config, NoPackage, FALSE)
    /\ UNCHANGED <<environment, claudeFile, claudeFileFn, amazonQFile, whichUvx, pending,
                   snapshot>>

\* readConfig / readMergedConfigs (module level)
ReadMergedFn ==
    /\ Called
    /\ LET r == readMergedConfigs(claudeFileFn, amazonQFile)
       IN  last' = Call("readMergedConfigsFn", NoPackage, "undefined", "undefined", "none",
                        ReadOutcome(r), r.config, NoPackage, FALSE)
    /\ UNCHANGED <<environment, claudeFile, claudeFileFn, amazonQFile, whichUvx, pending,
                   snapshot>>

\* serverName in mcpServers || packageName in mcpServers
HasEitherName(config, packageName) ==
    \/ HasName(config.mcpServers, config.proto, ServerNameOf(packageName))
    \/ HasName(config.mcpServers, config.proto, packageName)

\* ConfigManager.isPackageInstalled
ConfigManager_isPackageInstalled(cFile, qFile, packageName) ==
    LET r == ConfigManager_readMergedConfigs(cFile, qFile)
    IN  [threw |-> r.threw, value |-> ~r.threw /\ HasEitherName(r.config, packageName)]

IsPackageInstalled(packageName) ==
    /\ Called
    /\ LET r == ConfigManager_isPackageInstalled(claudeFile, amazonQFile, packageName)
       IN  last' = Call("isPackageInstalled", packageName, "undefined", "undefined", "none",
                        ReadOutcome(r), EmptyConfig, NoPackage, r.value)
    /\ UNCHANGED <<environment, claudeFile, claudeFileFn, amazonQFile, whichUvx, pending,
                   snapshot>>

\* The configs a caller hands to writeConfig directly.
WriteArgs ==
    {[EmptyConfig EXCEPT !.extras = [k \in ExtraKeys |-> JsonText("\"solar\"")],
                         !.mcpServers = [n \in {PkgPlain} |-> LegacySecondary]]}

\* ConfigManager.writeConfig(config), also with the merged config just read.
WriteConfig(config, fsFault) ==
    /\ Called
    /\ LET w == ConfigManager_writeConfig(claudeFile, amazonQFile, config, fsFault)
       IN  /\ ConfigManagerLeaves(w.claude, w.amazonQ)
           /\ last' = Call("writeConfig", NoPackage, "undefined", "undefined", fsFault,
                           WriteOutcome(w), config, NoPackage, FALSE)
    /\ UNCHANGED <<environment, whichUvx, pending, snapshot>>

\* writeConfig(config) (module level); here mcpServers may be missing.
WriteConfigFn(config, fsFault) ==
    /\ Called
    /\ LET w == writeConfig(claudeFileFn, amazonQFile, config, fsFault)
       IN  /\ ModuleLeaves(w.claude, w.amazonQ)
           /\ last' = Call("writeConfigFn", NoPackage, "undefined", "undefined", fsFault,
                           WriteOutcome(w), config, NoPackage, FALSE)
    /\ UNCHANGED <<environment, whichUvx, pending, snapshot>>

(***************************************************************************)
(* Install / Uninstall.  Each handler returns the two files as it leaves   *)
(* them, how it ended ("ok", "threw", "notInstalled"), the config it built *)
(* and the server name it set or deleted.                                  *)
(***************************************************************************)
Handled(w, config, key) ==
    [claude |-> w.claude, amazonQ |-> w.amazonQ, outcome |-> WriteOutcome(w),
     config |-> config, key |-> key]

NotHandled(cFile, qFile, outcome, config) ==
    [claude |-> cFile, amazonQ |-> qFile, outcome |-> outcome, config |-> config,
     key |-> NoPackage]

\* ConfigManager.installPackage
ConfigManager_installPackage(cFile, qFile, pkg, envVars, fsFault) ==
    LET r == ConfigManager_readMergedConfigs(cFile, qFile)
        serverName == ServerNameOf(pkg.name)
        config == WithServer(r.config, serverName, ConfigManager_serverConfigOf(pkg, envVars))
    IN  IF r.threw THEN NotHandled(cFile, qFile, "threw", r.config)
        ELSE Handled(ConfigManager_writeConfig(cFile, qFile, config, fsFault), config, serverName)

\* An installMCPServer that reads the merged config again after the lookup
\* and builds its entry into that one.
InstallRereadingAfterLookup(cFile, qFile, read, packageName, envVars, runtime, lookup, fsFault) ==
    LET serverName == ServerNameOf(packageName)
        effectiveRuntime == EffectiveRuntime(packageName, runtime)
        config == WithServer(readMergedConfigs(cFile, qFile).config, serverName,
                             ServerConfigOf(packageName, envVars, effectiveRuntime, lookup))
    IN  Handled(writeConfig(cFile, qFile, config, fsFault), config, serverName)

\* An installMCPServer whose lookup is not inside a try block: a failed
\* lookup ends the call before anything is written.
InstallPropagatingLookupFailure(cFile, qFile, read, packageName, envVars, runtime, lookup, fsFault) ==
    LET serverName == ServerNameOf(packageName)
        effectiveRuntime == EffectiveRuntime(packageName, runtime)
        config == WithServer(read, serverName,
                             ServerConfigOf(packageName, envVars, effectiveRuntime, lookup))
    IN  IF effectiveRuntime = "python" /\ ~lookup.ok
        THEN NotHandled(cFile, qFile, "threw", read)
        ELSE Handled(writeConfig(cFile, qFile, config, fsFault), config, serverName)

\* installMCPServer, from the config it read to its end; lookup is the
\* outcome of `which uvx` (awaited only for the python runtime).
installMCPServerFrom(cFile, qFile, read, packageName, envVars, runtime, lookup, fsFault) ==
    LET serverName == ServerNameOf(packageName)
        effectiveRuntime == EffectiveRuntime(packageName, runtime)
        config == WithServer(read, serverName,
                             ServerConfigOf(packageName, envVars, effectiveRuntime, lookup))
    IN  Handled(writeConfig(cFile, qFile, config, fsFault), config, serverName)

\* installMCPServer from its first line to its last, the lookup included:
\* what the call does when no other call runs while it is suspended.
installMCPServer(cFile, qFile, packageName, envVars, runtime, lookup, fsFault) ==
    LET r == readMergedConfigs(cFile, qFile)
    IN  IF r.threw THEN NotHandled(cFile, qFile, "threw", r.config)
        ELSE installMCPServerFrom(cFile, qFile, r.config, packageName, envVars, runtime,
                                  lookup, fsFault)

\* An uninstall that looks only under the dash form of the name.
UninstallDashFormOnly(cFile, qFile, packageName, fsFault) ==
    LET r == ConfigManager_readMergedConfigs(cFile, qFile)
        serverName == ServerNameOf(packageName)
    IN  IF TruthyAt(r.config.mcpServers, r.config.proto, serverName)
        THEN Handled(ConfigManager_writeConfig(cFile, qFile,
                        WithoutServer(r.config, serverName), fsFault),
                     WithoutServer(r.config, serverName), serverName)
        ELSE NotHandled(cFile, qFile, "notInstalled", r.config)

\* ConfigManager.uninstallPackage: config.mcpServers[name] is tested for
\* truthiness, so a name the object inherits passes the test and an own
\* name that holds null does not; delete removes an own name only.
ConfigManager_uninstallPackage(cFile, qFile, packageName, fsFault) ==
    LET r == ConfigManager_readMergedConfigs(cFile, qFile)
        serverName == ServerNameOf(packageName)
    IN  IF r.threw THEN NotHandled(cFile, qFile, "threw", r.config)
        ELSE IF ~r.config.hasServers THEN NotHandled(cFile, qFile, "notInstalled", r.config)
        ELSE IF TruthyAt(r.config.mcpServers, r.config.proto, serverName)
        THEN Handled(ConfigManager_writeConfig(cFile, qFile,
                        WithoutServer(r.config, serverName), fsFault),
                     WithoutServer(r.config, serverName), serverName)
        ELSE IF TruthyAt(r.config.mcpServers, r.config.proto, packageName)
        THEN Handled(ConfigManager_writeConfig(cFile, qFile,
                        WithoutServer(r.config, packageName), fsFault),
                     WithoutServer(r.config, packageName), packageName)
        ELSE NotHandled(cFile, qFile, "notInstalled", r.config)

\* The fault a call met: none when it ended before its first write.
FaultMet(h, fsFault) == IF h.outcome = "notInstalled" THEN "none" ELSE fsFault

InstallPackage(packageName, runtime, envVars, fsFault) ==
    /\ Called
    /\ LET h == ConfigManager_installPackage(claudeFile, amazonQFile,
                    [name |-> packageName, runtime |-> runtime], envVars, fsFault)
       IN  /\ ConfigManagerLeaves(h.claude, h.amazonQ)
           /\ last' = Call("installPackage", packageName, envVars, runtime, fsFault,
                           h.outcome, h.config, h.key, FALSE)
    /\ UNCHANGED <<environment, whichUvx, pending, snapshot>>

\* What installMCPServer keeps while it is suspended at the await: the
\* config it read and its arguments.  found is history: the two files as
\* the call found them.
Suspended(read, packageName, envVars, runtime, found) ==
    [read |-> read, packageName |-> packageName, env |-> envVars, runtime |-> runtime,
     found |-> found]

RemoveAt(seq, i) == SubSeq(seq, 1, i - 1) \o SubSeq(seq, i + 1, Len(seq))

\* installMCPServer where the effective runtime is not python: no await is
\* reached, the call runs to its end.
InstallMCPServer(packageName, envVars, runtime, fsFault) ==
    /\ Called
    /\ EffectiveRuntime(packageName, runtime) # "python"
    /\ LET h == installMCPServer(claudeFileFn, amazonQFile, packageName, envVars, runtime,
                                 whichUvx, fsFault)
       IN  /\ ModuleLeaves(h.claude, h.amazonQ)
           /\ last' = Call("installMCPServer", packageName, envVars, runtime, fsFault,
                           h.outcome, h.config, h.key, FALSE)
    /\ UNCHANGED <<environment, whichUvx, pending, snapshot>>

\* installMCPServer up to the await: the merged config is read, nothing is
\* written, the call returns to its caller.
SuspendAtLookup(packageName, envVars, runtime, found) ==
    /\ LET r == readMergedConfigs(claudeFileFn, amazonQFile)
       IN  /\ pending' = Append(pending,
                                Suspended(r.config, packageName, envVars, runtime, found))
           /\ last' = Call("installMCPServer", packageName, envVars, runtime, "none",
                           "suspended", r.config, NoPackage, FALSE)
    /\ UNCHANGED <<environment, claudeFile, claudeFileFn, amazonQFile, whichUvx>>

\* installMCPServer from the end of the lookup, which gave the answer
\* lookup: the entry is set in the config read before the await, and both
\* files are written.
ResumeAfterLookup(i, lookup, fsFault) ==
    /\ LET s == pending[i]
           h == installMCPServerFrom(claudeFileFn, amazonQFile, s.read, s.packageName, s.env,
                                     s.runtime, lookup, fsFault)
       IN  /\ ModuleLeaves(h.claude, h.amazonQ)
           /\ last' = Call("installMCPServer", s.packageName, s.env, s.runtime, fsFault,
                           h.outcome, h.config, h.key, FALSE)
    /\ pending' = RemoveAt(pending, i)
    /\ whichUvx' = lookup
    /\ UNCHANGED <<environment, callsLeft>>

\* installMCPServer with the python runtime, up to the await.
InstallMCPServerStart(packageName, envVars, runtime) ==
    /\ Called
    /\ EffectiveRuntime(packageName, runtime) = "python"
    /\ Len(pending) < MaxPending
    /\ SuspendAtLookup(packageName, envVars, runtime,
                       Snapshot("call", claudeFileFn, amazonQFile))
    /\ UNCHANGED snapshot

\* installMCPServer with the python runtime, from the end of the lookup.
InstallMCPServerResume(i, lookup, fsFault) ==
    /\ i \in DOMAIN pending
    /\ ResumeAfterLookup(i, lookup, fsFault)
    /\ UNCHANGED snapshot

UninstallPackage(packageName, fsFault) ==
    /\ Called
    /\ LET h == ConfigManager_uninstallPackage(claudeFile, amazonQFile, packageName, fsFault)
       IN  /\ ConfigManagerLeaves(h.claude, h.amazonQ)
           /\ last' = Call("uninstallPackage", packageName, "undefined", "undefined",
                           FaultMet(h, fsFault), h.outcome, h.config, h.key, FALSE)
    /\ UNCHANGED <<environment, whichUvx, pending, snapshot>>

Next ==
    \/ ReadClaude
    \/ ReadAmazonQ
    \/ ReadClaudeFn
    \/ ReadAmazonQFn
    \/ ReadMerged
    \/ ReadMergedFn
    \/ \E p \in PackageNames : IsPackageInstalled(p)
    \/ \E c \in WriteArgs \cup {ConfigManager_readMergedConfigs(claudeFile, amazonQFile).config},
          f \in FsFaults : WriteConfig(c, f)
    \/ \E c \in WriteArgs \cup {readMergedConfigs(claudeFileFn, amazonQFile).config,
                                [EmptyConfig EXCEPT !.hasServers = FALSE]},
          f \in FsFaults : WriteConfigFn(c, f)
    \/ \E p \in PackageNames, rt \in Runtimes, e \in EnvVals, f \in FsFaults :
          InstallPackage(p, rt, e, f)
    \/ \E p \in PackageNames, rt \in Runtimes \cup {"undefined"}, e \in EnvVals, f \in FsFaults :
          InstallMCPServer(p, e, rt, f)
    \/ \E p \in PackageNames, rt \in Runtimes \cup {"undefined"}, e \in EnvVals :
          InstallMCPServerStart(p, e, rt)
    \/ \E i \in 1..MaxPending, l \in Lookups, f \in FsFaults : InstallMCPServerResume(i, l, f)
    \/ \E p \in PackageNames, f \in FsFaults : UninstallPackage(p, f)

Spec == Init /\ [][Next]_vars

(***************************************************************************)
(* The caller that does not await: it makes its next call while an         *)
(* installMCPServer is suspended, on files that hold one server at most.   *)
(***************************************************************************)
\* installMCPServer with the python runtime, from the end of the lookup;
\* snapshot keeps the files it writes over.
InstallMCPServerResumeOver(i, lookup, fsFault) ==
    /\ i \in DOMAIN pending
    /\ ResumeAfterLookup(i, lookup, fsFault)
    /\ snapshot' = Snapshot("resumed", claudeFileFn, amazonQFile)

\* The packages the caller that does not await installs and uninstalls.
AsyncPackageNames == {PkgScoped, PkgPlain}

\* The files the caller that does not await starts from.
InitAsyncFiles(entry) ==
    {MissingFile, MalformedFile,
     JsonFile(EmptyConfig),
     JsonFile([EmptyConfig EXCEPT !.mcpServers = [n \in {ServerNameOf(PkgScoped)} |-> entry]])}

\* The same where the Claude file is two files.
InitAsyncSplitFiles(entry) ==
    {MissingFile,
     JsonFile([EmptyConfig EXCEPT !.mcpServers = [n \in {ServerNameOf(PkgScoped)} |-> entry]])}

InitAsync ==
    /\ environment \in Environments
    /\ \/ /\ SameClaudePath(environment)
          /\ claudeFile \in InitAsyncFiles(LegacyPrimary)
          /\ claudeFileFn = claudeFile
          /\ amazonQFile \in InitAsyncFiles(LegacySecondary)
       \/ /\ ~SameClaudePath(environment)
          /\ claudeFile \in InitAsyncSplitFiles(LegacyPrimary)
          /\ claudeFileFn \in InitAsyncSplitFiles(LegacyPrimary)
          /\ amazonQFile \in InitAsyncSplitFiles(LegacySecondary)
    /\ whichUvx = UvxNotFound
    /\ pending = <<>>
    /\ callsLeft = MaxAsyncCalls
    /\ last = NoCall
    /\ snapshot = NoSnapshot

NextAsync ==
    \/ ReadMergedFn
    \/ \E p \in AsyncPackageNames : IsPackageInstalled(p)
    \/ \E p \in AsyncPackageNames, rt \in Runtimes \cup {"undefined"}, e \in EnvVals,
          f \in FsFaults : InstallMCPServer(p, e, rt, f)
    \/ \E p \in AsyncPackageNames, rt \in Runtimes \cup {"undefined"}, e \in EnvVals :
          InstallMCPServerStart(p, e, rt)
    \/ \E i \in 1..MaxPending, l \in Lookups, f \in FsFaults :
          InstallMCPServerResumeOver(i, l, f)
    \/ \E p \in AsyncPackageNames, f \in FsFaults : UninstallPackage(p, f)

SpecAsync == InitAsync /\ [][NextAsync]_vars

(***************************************************************************)
(* The caller that runs a failed call again.  An install or uninstall      *)
(* whose write of the Amazon Q file throws has written the Claude file;    *)
(* the caller then makes the same call again, and this time no write       *)
(* fails.  snapshot keeps the files the failed call started from.  An      *)
(* installMCPServer with the python runtime is suspended at its lookup the *)
(* first time and the second time, and fails or completes when it resumes. *)
(***************************************************************************)
OtherServer == <<"z">>

\* The calls the module-level functions serve; ConfigManager serves the rest.
ModuleOps ==
    {"readClaudeConfigFn", "readAmazonQConfigFn", "readMergedConfigsFn", "writeConfigFn",
     "installMCPServer"}

\* The Claude file the call named op reads and writes, given the file at
\* ConfigManager's path and the file at the module-level functions' path.
ClaudeFileOf(op, cFile, cFileFn) == IF op \in ModuleOps THEN cFileFn ELSE cFile

\* The call named op leaves cFile at its Claude path and qFile at the
\* Amazon Q path.
Leaves(op, cFile, qFile) ==
    IF op \in ModuleOps THEN ModuleLeaves(cFile, qFile) ELSE ConfigManagerLeaves(cFile, qFile)

\* The handler of the call named op, on the given files.
RunOp(cFile, qFile, op, packageName, envVars, runtime, lookup, fsFault) ==
    CASE op = "installPackage" ->
            ConfigManager_installPackage(cFile, qFile,
                [name |-> packageName, runtime |-> runtime], envVars, fsFault)
      [] op = "installMCPServer" ->
            installMCPServer(cFile, qFile, packageName, envVars, runtime, lookup, fsFault)
      [] op = "uninstallPackage" ->
            ConfigManager_uninstallPackage(cFile, qFile, packageName, fsFault)

\* The effect of a call whose write of the Amazon Q file throws.
FailBetweenWrites(op, packageName, envVars, runtime) ==
    /\ LET h == RunOp(ClaudeFileOf(op, claudeFile, claudeFileFn), amazonQFile, op,
                      packageName, envVars, runtime, whichUvx, "amazonQ")
       IN  /\ h.outcome = "threw"
           /\ Leaves(op, h.claude, h.amazonQ)
           /\ last' = Call(op, packageName, envVars, runtime, "amazonQ", h.outcome, h.config,
                           h.key, FALSE)
    /\ snapshot' = Snapshot("failed", ClaudeFileOf(op, claudeFile, claudeFileFn), amazonQFile)
    /\ UNCHANGED <<environment, whichUvx, pending>>

InstallPackageFailing(packageName, runtime, envVars) ==
    /\ Called
    /\ FailBetweenWrites("installPackage", packageName, envVars, runtime)

\* installMCPServer where the effective runtime is not python.
InstallMCPServerFailing(packageName, envVars, runtime) ==
    /\ Called
    /\ EffectiveRuntime(packageName, runtime) # "python"
    /\ FailBetweenWrites("installMCPServer", packageName, envVars, runtime)

\* installMCPServer with the python runtime, made for the first time,
\* resumes and its write of the Amazon Q file throws.
InstallMCPServerResumeFailing(i, lookup) ==
    /\ i \in DOMAIN pending
    /\ pending[i].found.of = "call"
    /\ ResumeAfterLookup(i, lookup, "amazonQ")
    /\ snapshot' = Snapshot("failed", pending[i].found.claude, pending[i].found.amazonQ)

UninstallPackageFailing(packageName) ==
    /\ Called
    /\ FailBetweenWrites("uninstallPackage", packageName, "undefined", "undefined")

\* The call that ended last failed between its two writes.
FailedLast == snapshot.of = "failed" /\ last.outcome = "threw"

\* The call that ended last reaches the await when it is made again.
RerunSuspends ==
    last.op = "installMCPServer" /\ EffectiveRuntime(last.packageName, last.runtime) = "python"

\* The call that failed last, made again with the same arguments; it runs
\* to its end.
Rerun ==
    /\ Called
    /\ FailedLast
    /\ ~RerunSuspends
    /\ LET h == RunOp(ClaudeFileOf(last.op, claudeFile, claudeFileFn), amazonQFile, last.op,
                      last.packageName, last.env, last.runtime, whichUvx, "none")
       IN  /\ Leaves(last.op, h.claude, h.amazonQ)
           /\ last' = Call(last.op, last.packageName, last.env, last.runtime, "none",
                           h.outcome, h.config, h.key, FALSE)
    /\ snapshot' = Snapshot("rerun", snapshot.claude, snapshot.amazonQ)
    /\ UNCHANGED <<environment, whichUvx, pending>>

\* The installMCPServer that failed last, made again: up to the await.
RerunStart ==
    /\ Called
    /\ FailedLast
    /\ RerunSuspends
    /\ Len(pending) < MaxPending
    /\ SuspendAtLookup(last.packageName, last.env, last.runtime,
                       Snapshot("again", snapshot.claude, snapshot.amazonQ))
    /\ snapshot' = NoSnapshot

\* The installMCPServer made again, from the end of the lookup.
RerunResume(i, lookup) ==
    /\ i \in DOMAIN pending
    /\ pending[i].found.of = "again"
    /\ ResumeAfterLookup(i, lookup, "none")
    /\ snapshot' = Snapshot("rerun", pending[i].found.claude, pending[i].found.amazonQ)

\* The packages the caller that runs a failed call again works on.
RetryPackageNames == {PkgScoped, PkgPlain}

\* The files the caller that runs a failed call again starts from: missing,
\* malformed, or holding any of the two forms of the scoped name and a
\* server of another package.
InitRetryFiles(entry) ==
    {MissingFile, MalformedFile}
    \cup {JsonFile([EmptyConfig EXCEPT !.mcpServers = m]) :
            m \in AllMaps(InitServerNames \cup {OtherServer}, {entry})}

\* The same where the Claude file is two files.
InitRetrySplitFiles(entry) ==
    {MissingFile, JsonFile([EmptyConfig EXCEPT !.mcpServers = [n \in {OtherServer} |-> entry]])}

InitRetry ==
    /\ environment \in Environments
    /\ \/ /\ SameClaudePath(environment)
          /\ claudeFile \in InitRetryFiles(LegacyPrimary)
          /\ claudeFileFn = claudeFile
          /\ amazonQFile \in InitRetryFiles(LegacySecondary)
       \/ /\ ~SameClaudePath(environment)
          /\ claudeFile \in InitRetrySplitFiles(LegacyPrimary)
          /\ claudeFileFn \in InitRetrySplitFiles(LegacyPrimary)
          /\ amazonQFile \in InitRetrySplitFiles(LegacySecondary)
    /\ whichUvx = UvxNotFound
    /\ pending = <<>>
    /\ callsLeft = MaxRetryCalls
    /\ last = NoCall
    /\ snapshot = NoSnapshot

NextRetry ==
    \/ \E p \in RetryPackageNames, rt \in Runtimes, e \in EnvVals :
          InstallPackageFailing(p, rt, e)
    \/ \E p \in RetryPackageNames, rt \in Runtimes \cup {"undefined"}, e \in EnvVals :
          InstallMCPServerFailing(p, e, rt)
    \/ \E p \in RetryPackageNames, rt \in Runtimes \cup {"undefined"}, e \in EnvVals :
          InstallMCPServerStart(p, e, rt)
    \/ \E i \in 1..MaxPending, l \in Lookups : InstallMCPServerResumeFailing(i, l)
    \/ \E p \in RetryPackageNames : UninstallPackageFailing(p)
    \/ Rerun
    \/ RerunStart
    \/ \E i \in 1..MaxPending, l \in Lookups : RerunResume(i, l)

SpecRetry == InitRetry /\ [][NextRetry]_vars

(***************************************************************************)
(* Vocabulary of the properties                                            *)
(***************************************************************************)
\* The mcpServers map and the host-owned keys a file holds on disk; a file
\* that is missing or does not parse holds none.
ServersOnDisk(file) ==
    IF file.kind = "json" /\ file.json.hasServers THEN file.json.mcpServers ELSE EmptyMap

ExtrasOnDisk(file) == IF file.kind = "json" THEN file.json.extras ELSE EmptyMap

\* The name with every '/' replaced by '-'.
DashForm(packageName) ==
    [i \in 1..Len(packageName) |-> IF packageName[i] = "/" THEN "-" ELSE packageName[i]]

\* The map m with the entry e under the name n, and m without the name n.
WithEntry(m, n, e) == [x \in DOMAIN m \cup {n} |-> IF x = n THEN e ELSE m[x]]
WithoutName(m, n) == [x \in DOMAIN m \ {n} |-> m[x]]

\* The map m stores an entry under the name n: the name is a key of m and
\* what it holds is not null.
StoresEntry(m, n) == n \in DOMAIN m /\ ~m[n].isNull

WriteOps == {"writeConfig", "writeConfigFn"}
InstallOps == {"installPackage", "installMCPServer"}
MergedReadOps == {"readMergedConfigs", "readMergedConfigsFn"}
WritingOps == WriteOps \cup InstallOps \cup {"uninstallPackage"}

\* The entry install(p, e, "node") is to store.
NodeEntry(packageName, envVars) ==
    [isNull |-> FALSE, fields |-> EntryFields,
     runtime |-> "node", command |-> "npx", args |-> <<"-y", packageName>>, env |-> envVars]

\* The Claude file of the call that ended last: the one its implementation
\* resolves.
ClaudeFileOfLast == ClaudeFileOf(last.op, claudeFile, claudeFileFn)

(***************************************************************************)
(* C1.  After a writeConfig, install or uninstall that wrote and completed *)
(* without throwing, both host files parse and hold the same mcpServers    *)
(* map, the one of the config handed to the writer; reading either host    *)
(* back yields that map.  The Claude file is the one the implementation    *)
(* that served the call resolves.                                          *)
(***************************************************************************)
C1_BothFilesHoldMergedServers ==
    (last.op \in WritingOps /\ last.outcome = "ok") =>
        /\ ClaudeFileOfLast.kind = "json" /\ amazonQFile.kind = "json"
        /\ ClaudeFileOfLast.json.hasServers = amazonQFile.json.hasServers
        /\ ClaudeFileOfLast.json.mcpServers = amazonQFile.json.mcpServers
        /\ ClaudeFileOfLast.json.mcpServers = last.config.mcpServers
        /\ ConfigManager_readClaudeConfig(ClaudeFileOfLast).config.mcpServers
              = last.config.mcpServers
        /\ ConfigManager_readAmazonQConfig(amazonQFile).config.mcpServers = last.config.mcpServers
        /\ readClaudeConfig(ClaudeFileOfLast).config.mcpServers = last.config.mcpServers
        /\ readAmazonQConfig(amazonQFile).config.mcpServers = last.config.mcpServers

\* A write of a non-empty map completed, and the hosts keep different extra keys.
C1_Witness ==
    /\ last.op \in WriteOps /\ last.outcome = "ok"
    /\ last.config.mcpServers # EmptyMap
    /\ ServersOnDisk(amazonQFile) = last.config.mcpServers
    /\ ServersOnDisk(ClaudeFileOfLast) = last.config.mcpServers
    /\ ExtrasOnDisk(ClaudeFileOfLast) # ExtrasOnDisk(amazonQFile)

(***************************************************************************)
(* C2.  No call changes a host-owned key: a file that exists and parses    *)
(* still does after the call, with every key other than mcpServers at the  *)
(* value it had; a file that held no such key is given none (not the other *)
(* host's, not the merged config's).                                       *)
(***************************************************************************)
C2_ExtraKeysUntouched ==
    [][/\ claudeFile.kind = "json" => claudeFile'.kind = "json"
       /\ claudeFileFn.kind = "json" => claudeFileFn'.kind = "json"
       /\ amazonQFile.kind = "json" => amazonQFile'.kind = "json"
       /\ ExtrasOnDisk(claudeFile') = ExtrasOnDisk(claudeFile)
       /\ ExtrasOnDisk(claudeFileFn') = ExtrasOnDisk(claudeFileFn)
       /\ ExtrasOnDisk(amazonQFile') = ExtrasOnDisk(amazonQFile)]_vars

\* A config with its own extra key was written over two files of which one
\* has a different value for the key and the other has no such key.
C2_Witness ==
    /\ last.op \in WriteOps /\ last.outcome = "ok"
    /\ last.config.extras # EmptyMap
    /\ ExtrasOnDisk(ClaudeFileOfLast) # EmptyMap
    /\ ExtrasOnDisk(ClaudeFileOfLast) # last.config.extras
    /\ ExtrasOnDisk(amazonQFile) = EmptyMap
    /\ ServersOnDisk(ClaudeFileOfLast) = last.config.mcpServers

(***************************************************************************)
(* C3.  The merged mcpServers map has exactly the names of the two hosts'  *)
(* maps; a name the primary defines has the primary's entry, a name only   *)
(* the secondary defines has the secondary's entry.                        *)
(***************************************************************************)
C3_MergedServersPrimaryWins ==
    (last.op \in MergedReadOps) =>
        LET merged == last.config.mcpServers
            primary == ServersOnDisk(ClaudeFileOfLast)
            secondary == ServersOnDisk(amazonQFile)
        IN  /\ last.outcome = "ok"
            /\ DOMAIN merged = DOMAIN primary \cup DOMAIN secondary
            /\ \A n \in DOMAIN primary : merged[n] = primary[n]
            /\ \A n \in DOMAIN secondary \ DOMAIN primary : merged[n] = secondary[n]

(***************************************************************************)
(* C4.  In the merged config every extra key the primary host has, with    *)
(* any value whatsoever, has the primary's value.                          *)
(***************************************************************************)
C4_PrimaryExtraKeyWins ==
    (last.op \in MergedReadOps) =>
        \A k \in DOMAIN ExtrasOnDisk(ClaudeFileOfLast) :
            /\ k \in DOMAIN last.config.extras
            /\ last.config.extras[k] = ExtrasOnDisk(ClaudeFileOfLast)[k]

(***************************************************************************)
(* C5.  Reading a host whose file is missing or malformed returns          *)
(* { mcpServers: {} }, does not raise, and leaves every file as it is.     *)
(***************************************************************************)
C5_ReadFailsOpen ==
    [][/\ (last'.op \in {"readClaudeConfig", "readClaudeConfigFn"}
            /\ ClaudeFileOf(last'.op, claudeFile, claudeFileFn).kind \in {"missing", "malformed"})
          => (last'.outcome = "ok" /\ last'.config = EmptyConfig
              /\ claudeFile' = claudeFile /\ claudeFileFn' = claudeFileFn
              /\ amazonQFile' = amazonQFile)
       /\ (last'.op \in {"readAmazonQConfig", "readAmazonQConfigFn"}
            /\ amazonQFile.kind \in {"missing", "malformed"})
          => (last'.outcome = "ok" /\ last'.config = EmptyConfig
              /\ claudeFile' = claudeFile /\ claudeFileFn' = claudeFileFn
              /\ amazonQFile' = amazonQFile)]_vars

\* The Amazon Q file was read while malformed, next to a Claude file with servers.
C5_Witness ==
    /\ last.op = "readAmazonQConfig"
    /\ amazonQFile.kind = "malformed"
    /\ ServersOnDisk(claudeFile) # EmptyMap
    /\ last.config = EmptyConfig

(***************************************************************************)
(* C6.  After install(p, e, "node") completed without throwing, by either  *)
(* installer, isPackageInstalled(p) is true and the dash form of p maps to *)
(* {runtime: "node", command: "npx", args: ["-y", p], env: e} in the       *)
(* merged view and in both host files.                                     *)
(***************************************************************************)
C6_NodeInstallStoresEntry ==
    (last.op \in InstallOps /\ last.runtime = "node" /\ last.outcome = "ok") =>
        LET p == last.packageName
            n == DashForm(p)
            merged == IF last.op = "installPackage"
                      THEN ConfigManager_readMergedConfigs(claudeFile, amazonQFile).config.mcpServers
                      ELSE readMergedConfigs(claudeFileFn, amazonQFile).config.mcpServers
        IN  /\ ConfigManager_isPackageInstalled(claudeFile, amazonQFile, p).value
            /\ n \in DOMAIN merged
            /\ n \in DOMAIN ServersOnDisk(ClaudeFileOfLast)
            /\ n \in DOMAIN ServersOnDisk(amazonQFile)
            /\ merged[n] = NodeEntry(p, last.env)
            /\ ServersOnDisk(ClaudeFileOfLast)[n] = NodeEntry(p, last.env)
            /\ ServersOnDisk(amazonQFile)[n] = NodeEntry(p, last.env)

(***************************************************************************)
(* C7.  uninstall(p), when the merged map stores an entry under the dash   *)
(* form or the raw form of p, does not report "not installed"; it removes  *)
(* the dash form when an entry is stored under it and the raw form         *)
(* otherwise, and when it completes both host files hold the merged map    *)
(* without that name.                                                      *)
(***************************************************************************)
C7_UninstallRemovesEitherForm ==
    [][(last'.op = "uninstallPackage") =>
        LET p == last'.packageName
            before == ConfigManager_readMergedConfigs(claudeFile, amazonQFile).config.mcpServers
            removed == IF StoresEntry(before, DashForm(p)) THEN DashForm(p) ELSE p
        IN  (StoresEntry(before, DashForm(p)) \/ StoresEntry(before, p)) =>
                /\ last'.outcome \in {"ok", "threw"}
                /\ last'.key = removed
                /\ last'.outcome = "ok" =>
                      /\ ServersOnDisk(claudeFile') = WithoutName(before, removed)
                      /\ ServersOnDisk(amazonQFile') = WithoutName(before, removed)
                      /\ claudeFile'.kind = "json" /\ amazonQFile'.kind = "json"]_vars

\* A legacy entry under the raw slash name was removed, another name staying.
C7_Witness ==
    /\ last.op = "uninstallPackage" /\ last.outcome = "ok"
    /\ last.packageName = PkgScoped
    /\ last.key = PkgScoped
    /\ PkgScoped \notin DOMAIN ServersOnDisk(claudeFile)
    /\ PkgScoped \notin DOMAIN ServersOnDisk(amazonQFile)
    /\ ServersOnDisk(claudeFile) # EmptyMap

(***************************************************************************)
(* C8.  uninstall(p), when neither form of p is a name of the merged map,  *)
(* leaves both host files exactly as they are (a missing file stays        *)
(* missing, a malformed one malformed), reports "not installed" and does   *)
(* not raise, whatever write would have failed.                            *)
(***************************************************************************)
C8_UninstallAbsentWritesNothing ==
    [][(last'.op = "uninstallPackage") =>
        LET p == last'.packageName
            before == ConfigManager_readMergedConfigs(claudeFile, amazonQFile).config.mcpServers
        IN  (DashForm(p) \notin DOMAIN before /\ p \notin DOMAIN before) =>
                /\ last'.outcome = "notInstalled"
                /\ claudeFile' = claudeFile
                /\ amazonQFile' = amazonQFile]_vars

(***************************************************************************)
(* C9.  In the state a successful install leaves, the same install run     *)
(* again (same package, env and runtime, same installer) completes and     *)
(* leaves both host files exactly as they are.                             *)
(***************************************************************************)
C9_InstallIdempotent ==
    /\ (last.op = "installPackage" /\ last.outcome = "ok") =>
          LET again == ConfigManager_installPackage(claudeFile, amazonQFile,
                          [name |-> last.packageName, runtime |-> last.runtime],
                          last.env, "none")
          IN  /\ again.outcome = "ok"
              /\ again.claude = claudeFile
              /\ again.amazonQ = amazonQFile
    /\ (last.op = "installMCPServer" /\ last.outcome = "ok") =>
          LET again == installMCPServer(claudeFileFn, amazonQFile, last.packageName,
                          last.env, last.runtime, whichUvx, "none")
          IN  /\ again.outcome = "ok"
              /\ again.claude = claudeFileFn
              /\ again.amazonQ = amazonQFile

(***************************************************************************)
(* C10. When the write of the Amazon Q file throws after the write of the  *)
(* Claude file succeeded, the call raises, the Claude file holds the new   *)
(* mcpServers map and the Amazon Q file is exactly what it was.            *)
(***************************************************************************)
C10_SecondWriteFailureIsPartial ==
    [][(last'.op \in WritingOps /\ last'.fsFault = "amazonQ") =>
        /\ last'.outcome = "threw"
        /\ ClaudeFileOf(last'.op, claudeFile', claudeFileFn').kind = "json"
        /\ ServersOnDisk(ClaudeFileOf(last'.op, claudeFile', claudeFileFn'))
              = last'.config.mcpServers
        /\ ExtrasOnDisk(ClaudeFileOf(last'.op, claudeFile', claudeFileFn'))
              = ExtrasOnDisk(ClaudeFileOf(last'.op, claudeFile, claudeFileFn))
        /\ amazonQFile' = amazonQFile]_vars

\* An install by the module-level installer raised on the second write,
\* where ConfigManager resolves another Claude file: the entry is in the
\* installer's Claude file and not in the Amazon Q file.
C10_Witness ==
    /\ last.op = "installMCPServer" /\ last.fsFault = "amazonQ" /\ last.outcome = "threw"
    /\ ~SameClaudePath(environment)
    /\ last.key \in DOMAIN ServersOnDisk(claudeFileFn)
    /\ last.key \notin DOMAIN ServersOnDisk(amazonQFile)
    /\ last.key \notin DOMAIN ServersOnDisk(claudeFile)
    /\ amazonQFile.kind = "json"

(***************************************************************************)
(* C11. isPackageInstalled(p) returns true exactly when the dash form of p *)
(* or p itself is a server name of at least one of the two host files; it  *)
(* does not raise and changes neither file.                                *)
(***************************************************************************)
C11_InstalledIffEitherNameInEitherFile ==
    (last.op = "isPackageInstalled") =>
        LET p == last.packageName
            names == DOMAIN ServersOnDisk(claudeFile) \cup DOMAIN ServersOnDisk(amazonQFile)
        IN  /\ last.outcome = "ok"
            /\ last.flag <=> (DashForm(p) \in names \/ p \in names)

\* An entry whose command and args fit its runtime, for the package it
\* launches: the python launcher is "uvx" or the path the lookup printed.
ConsistentEntry(entry, packageName) ==
    \/ /\ entry.runtime = "node"
       /\ entry.command = "npx"
       /\ entry.args = <<"-y", packageName>>
    \/ /\ entry.runtime = "python"
       /\ entry.command = "uvx" \/ (whichUvx.ok /\ entry.command = "/usr/local/bin/uvx")
       /\ entry.args = <<packageName>>

(***************************************************************************)
(* C12. The entry an install stores in the config it writes, and every     *)
(* copy of it that reaches a host file, has the runtime asked for, and     *)
(* command and args that fit it: node gives "npx" and ["-y", p]; python    *)
(* gives "uvx" or the path the lookup printed and [p].  The files the call *)
(* wrote hold the map of that config.                                      *)
(***************************************************************************)
C12_CommandFitsRuntime ==
    (last.op \in InstallOps /\ last.outcome \in {"ok", "threw"}) =>
        LET p == last.packageName
            n == DashForm(p)
            built == last.config.mcpServers
        IN  /\ last.key = n
            /\ n \in DOMAIN built =>
                  /\ ConsistentEntry(built[n], p)
                  /\ last.runtime # "undefined" => built[n].runtime = last.runtime
            /\ (last.outcome = "ok" \/ last.fsFault = "amazonQ") =>
                  ServersOnDisk(ClaudeFileOfLast) = built
            /\ last.outcome = "ok" => ServersOnDisk(amazonQFile) = built

\* ConfigManager.installPackage stored a python entry for the scoped
\* package in both files.
C12_Witness ==
    /\ last.op = "installPackage" /\ last.outcome = "ok" /\ last.runtime = "python"
    /\ last.packageName = PkgScoped
    /\ DashForm(PkgScoped) \in DOMAIN ServersOnDisk(amazonQFile)
    /\ ServersOnDisk(amazonQFile)[DashForm(PkgScoped)].command = "uvx"
    /\ ServersOnDisk(amazonQFile)[DashForm(PkgScoped)].args = <<PkgScoped>>
    /\ ServersOnDisk(claudeFile) = ServersOnDisk(amazonQFile)

(***************************************************************************)
(* C13. An installMCPServer that resumes after its lookup and completes    *)
(* writes the map it read before the lookup, plus its own entry, to both   *)
(* files: every server name that reached a file in between, other than its *)
(* own, is in neither file afterwards.  Nothing detects that the map is    *)
(* stale.                                                                  *)
(***************************************************************************)
C13_ResumedInstallWritesStaleMap ==
    [][\A i \in DOMAIN pending :
        (pending' = RemoveAt(pending, i) /\ last'.outcome = "ok") =>
            LET stale == pending[i].read.mcpServers
                own == DashForm(pending[i].packageName)
                onDisk == DOMAIN ServersOnDisk(claudeFileFn) \cup DOMAIN ServersOnDisk(amazonQFile)
            IN  /\ last'.op = "installMCPServer"
                /\ own \in DOMAIN last'.config.mcpServers
                /\ ServersOnDisk(claudeFileFn')
                      = WithEntry(stale, own, last'.config.mcpServers[own])
                /\ ServersOnDisk(amazonQFile')
                      = WithEntry(stale, own, last'.config.mcpServers[own])
                /\ \A n \in onDisk \ (DOMAIN stale \cup {own}) :
                      /\ n \notin DOMAIN ServersOnDisk(claudeFileFn')
                      /\ n \notin DOMAIN ServersOnDisk(amazonQFile')]_vars

\* A python install of the scoped package resumed and completed after a
\* whole install of the plain package had written its entry to both files:
\* that entry is in neither file any more.
C13_Witness ==
    /\ snapshot.of = "resumed"
    /\ last.op = "installMCPServer" /\ last.outcome = "ok"
    /\ last.packageName = PkgScoped
    /\ EffectiveRuntime(last.packageName, last.runtime) = "python"
    /\ PkgPlain \in DOMAIN ServersOnDisk(snapshot.claude)
    /\ PkgPlain \in DOMAIN ServersOnDisk(snapshot.amazonQ)
    /\ ServersOnDisk(snapshot.claude)[PkgPlain].args = <<"-y", PkgPlain>>
    /\ ServersOnDisk(snapshot.amazonQ)[PkgPlain].args = <<"-y", PkgPlain>>
    /\ PkgPlain \notin DOMAIN ServersOnDisk(claudeFileFn)
    /\ PkgPlain \notin DOMAIN ServersOnDisk(amazonQFile)
    /\ DashForm(PkgScoped) \in DOMAIN ServersOnDisk(claudeFileFn)

(***************************************************************************)
(* C14. With exactly one host file malformed and no filesystem failure,    *)
(* every install(p) and every uninstall(p) that ends (an install suspended *)
(* at its lookup has not ended) completes without raising and leaves both  *)
(* files parsing, with identical mcpServers maps that hold the             *)
(* well-formed host's entries (minus an uninstalled one, plus an installed *)
(* p).                                                                     *)
(***************************************************************************)
C14_CorruptFileNeverBlocks ==
    [][(/\ last'.op \in InstallOps \cup {"uninstallPackage"}
        /\ last'.outcome # "suspended"
        /\ last'.fsFault = "none"
        /\ (ClaudeFileOf(last'.op, claudeFile, claudeFileFn).kind = "malformed")
              # (amazonQFile.kind = "malformed")) =>
            LET claudeBefore == ClaudeFileOf(last'.op, claudeFile, claudeFileFn)
                claudeAfter == ClaudeFileOf(last'.op, claudeFile', claudeFileFn')
                good == IF claudeBefore.kind = "malformed" THEN ServersOnDisk(amazonQFile)
                        ELSE ServersOnDisk(claudeBefore)
                p == last'.packageName
            IN  /\ last'.outcome # "threw"
                /\ claudeAfter.kind = "json" /\ amazonQFile'.kind = "json"
                /\ ServersOnDisk(claudeAfter) = ServersOnDisk(amazonQFile')
                /\ last'.op \in InstallOps =>
                      /\ DashForm(p) \in DOMAIN ServersOnDisk(claudeAfter)
                      /\ \A n \in DOMAIN good \ {DashForm(p)} :
                            /\ n \in DOMAIN ServersOnDisk(claudeAfter)
                            /\ ServersOnDisk(claudeAfter)[n] = good[n]
                /\ last'.op = "uninstallPackage" =>
                      \A n \in DOMAIN good \ {DashForm(p), p} :
                            /\ n \in DOMAIN ServersOnDisk(claudeAfter)
                            /\ ServersOnDisk(claudeAfter)[n] = good[n]]_vars

(***************************************************************************)
(* C15. After an install or uninstall that failed between the two writes   *)
(* was run again and completed (the second run has ended and did not       *)
(* raise), both files hold the mcpServers map that one run of the call     *)
(* without failure leaves, from the files the failed call started from.    *)
(***************************************************************************)
C15_RerunReachesFailureFreeState ==
    (snapshot.of = "rerun" /\ last.outcome \notin {"threw", "suspended"}) =>
        LET clean == RunOp(snapshot.claude, snapshot.amazonQ, last.op, last.packageName,
                           last.env, last.runtime, whichUvx, "none")
        IN  /\ clean.outcome = "ok"
            /\ ServersOnDisk(ClaudeFileOfLast) = ServersOnDisk(clean.claude)
            /\ ServersOnDisk(amazonQFile) = ServersOnDisk(clean.amazonQ)

(***************************************************************************)
(* C16. installMCPServer, when no write fails, completes whatever the      *)
(* lookup of the python launcher gave (until the lookup ends the call is   *)
(* suspended and has written nothing), and writes both files with the map  *)
(* it built; the entry it stored there has, for python, the path the       *)
(* lookup printed, trimmed, or "uvx" when the lookup failed, and the args  *)
(* [p]; for node the command is "npx" and the args ["-y", p] whether or    *)
(* not the launcher can be found.                                          *)
(***************************************************************************)
C16_LookupFailureFallsBack ==
    (last.op = "installMCPServer" /\ last.fsFault = "none" /\ last.outcome # "suspended") =>
        LET p == last.packageName
            n == DashForm(p)
            rt == IF last.runtime \in Runtimes THEN last.runtime
                  ELSE IF p = PkgPlain THEN "python" ELSE "node"
            expected == IF rt = "python"
                        THEN [isNull |-> FALSE, fields |-> EntryFields,
                              runtime |-> "python", env |-> last.env, args |-> <<p>>,
                              command |-> IF whichUvx = UvxFound THEN "/usr/local/bin/uvx"
                                          ELSE "uvx"]
                        ELSE [isNull |-> FALSE, fields |-> EntryFields,
                              runtime |-> "node", env |-> last.env, args |-> <<"-y", p>>,
                              command |-> "npx"]
        IN  /\ last.outcome = "ok"
            /\ claudeFileFn.kind = "json" /\ amazonQFile.kind = "json"
            /\ ServersOnDisk(claudeFileFn) = last.config.mcpServers
            /\ ServersOnDisk(amazonQFile) = last.config.mcpServers
            /\ n \in DOMAIN last.config.mcpServers => last.config.mcpServers[n] = expected

\* A python install of the scoped package completed although the lookup
\* failed: both files hold its entry with the bare launcher name.
C16_Witness ==
    /\ last.op = "installMCPServer" /\ last.outcome = "ok"
    /\ last.runtime = "python" /\ last.packageName = PkgScoped
    /\ whichUvx = UvxNotFound
    /\ ServersOnDisk(claudeFileFn)[DashForm(PkgScoped)].command = "uvx"
    /\ ServersOnDisk(amazonQFile)[DashForm(PkgScoped)].command = "uvx"
    /\ ServersOnDisk(amazonQFile)[DashForm(PkgScoped)].args = <<PkgScoped>>

(***************************************************************************)
(* C17. After an uninstall(p) that completed, without throwing and without *)
(* reporting "not installed", isPackageInstalled(p) is false.              *)
(***************************************************************************)
C17_UninstalledIsNotInstalled ==
    (last.op = "uninstallPackage" /\ last.outcome = "ok") =>
        LET r == ConfigManager_isPackageInstalled(claudeFile, amazonQFile, last.packageName)
        IN  ~r.threw /\ ~r.value

(***************************************************************************)
(* C18. An install or uninstall that completed changed only the name it    *)
(* set or deleted: every other server name is in both files afterwards     *)
(* exactly when it was in one of them before, with the primary file's      *)
(* entry when the primary file had the name and the secondary file's entry *)
(* otherwise.                                                              *)
(***************************************************************************)
C18_OtherServersKept ==
    [][(last'.op \in InstallOps \cup {"uninstallPackage"} /\ last'.outcome = "ok") =>
        LET primary == ServersOnDisk(ClaudeFileOf(last'.op, claudeFile, claudeFileFn))
            secondary == ServersOnDisk(amazonQFile)
            claudeAfter == ClaudeFileOf(last'.op, claudeFile', claudeFileFn')
            others == (DOMAIN primary \cup DOMAIN secondary) \ {last'.key}
        IN  /\ last'.key \in {DashForm(last'.packageName), last'.packageName}
            /\ DOMAIN ServersOnDisk(claudeAfter) \ {last'.key} = others
            /\ DOMAIN ServersOnDisk(amazonQFile') \ {last'.key} = others
            /\ \A n \in others :
                  LET kept == IF n \in DOMAIN primary THEN primary[n] ELSE secondary[n]
                  IN  /\ ServersOnDisk(claudeAfter)[n] = kept
                      /\ ServersOnDisk(amazonQFile')[n] = kept]_vars

\* The configs handed to both writers: the ones a caller hands to
\* writeConfig, the empty config, a config without mcpServers, and the
\* merged config each implementation reads.
ConfigsOfBothWriters ==
    WriteArgs \cup {EmptyConfig,
                    [EmptyConfig EXCEPT !.hasServers = FALSE],
                    ConfigManager_readMergedConfigs(claudeFile, amazonQFile).config,
                    readMergedConfigs(claudeFileFn, amazonQFile).config}

(***************************************************************************)
(* C19. On the same contents of the Claude file and of the Amazon Q file,  *)
(* ConfigManager.readMergedConfigs and the module-level readMergedConfigs  *)
(* return the same config; on the same contents, the same config and the   *)
(* same failing write, ConfigManager.writeConfig and the module-level      *)
(* writeConfig leave the same contents in the two files and both raise or  *)
(* both return.                                                            *)
(***************************************************************************)
C19_ImplementationsAgree ==
    /\ \A cFile \in {claudeFile, claudeFileFn} :
          /\ ConfigManager_readMergedConfigs(cFile, amazonQFile)
                = readMergedConfigs(cFile, amazonQFile)
          /\ \A config \in ConfigsOfBothWriters, fsFault \in FsFaults :
                ConfigManager_writeConfig(cFile, amazonQFile, config, fsFault)
                   = writeConfig(cFile, amazonQFile, config, fsFault)
    /\ last.op = "readMergedConfigs" =>
          last.config = readMergedConfigs(claudeFile, amazonQFile).config
    /\ last.op = "readMergedConfigsFn" =>
          last.config = ConfigManager_readMergedConfigs(claudeFileFn, amazonQFile).config

====
